---- MODULE Spec2Model ----
(***************************************************************************)
(* olacli: an interactive loop in which a text-generation backend proposes *)
(* actions (web fetch, shell command, source file) that the program        *)
(* dispatches, with operator confirmation of shell commands and a          *)
(* repair recursion on a failing command (src/olacli.py).                  *)
(*                                                                         *)
(* Texts are sequences of tokens.  A token is an atomic run of characters: *)
(*   "TOOL"   the literal [TOOL_WEB]          "URL"  https://example.com/p *)
(*   "FENCE"  three backticks                 "nl"   a newline             *)
(*   "FNAME"  the literal "filename: "        "sp"   a blank               *)
(* and words such as "bash", "BASH", "python", "ls", "foo.py", "hi".       *)
(* In the literal pieces of composed texts (bt) stands for a backtick and  *)
(* (q) for a single quote.                                                 *)
(* The program is sequential; the model has one control location per       *)
(* blocking point (terminal read, transport attempt, fetch, file write,    *)
(* process run) and one action per outcome of that blocking point, which   *)
(* runs the code up to the next blocking point.                            *)
(***************************************************************************)
EXTENDS Integers, Sequences, FiniteSets, TLC

VARIABLES
    pc,        \* control location: the blocking point the program waits at
    messages,  \* main(): the conversation history list
    log,       \* externally visible events of the current turn, in order
    site,      \* which call of call_ollama_api_stream is in progress
    attempt,   \* call_ollama_api_stream: the loop index `attempt`
    ret,       \* call_ollama_api_stream: the returned value
    req,       \* call_ollama_api_stream: its `messages` argument
    resp,      \* handle_response: its `ai_response` argument (innermost call)
    mark,      \* length of log when the innermost handle_response was entered
    hmark,     \* length of messages when it was entered
    url,       \* handle_response: `url`
    cmd,       \* execute_and_debug_command: `current_command`
    art,       \* filename / language / code of the file artifact in hand
    err,       \* execute_and_debug_command: `e.stderr` of the failed run
    depth      \* number of active execute_and_debug_command frames

vars == <<pc, messages, log, site, attempt, ret, req, resp, mark, hmark, url, cmd, art, err, depth>>

----------------------------------------------------------------------------
(* Bounds of the model *)

\* The operator begins a turn, and accepts a repair, only while the history
\* holds fewer messages than this.
MaxHistory == 4

(* Program constants *)

max_retries == 3

max_length == 8000

----------------------------------------------------------------------------
(* Values *)

None == <<"<None>">>

Truthy(x) == x # None /\ x # <<>>

Min(S) == CHOOSE x \in S : \A y \in S : x <= y

Max(S) == CHOOSE x \in S : \A y \in S : x >= y

IsWs(t) == t \in {"sp", "nl"}

\* str.strip(): drop leading and trailing whitespace
Strip(s) ==
    LET keep == {i \in 1..Len(s) : ~IsWs(s[i])}
    IN  IF keep = {} THEN <<>> ELSE SubSeq(s, Min(keep), Max(keep))

LowerTok(t) == IF t = "BASH" THEN "bash" ELSE IF t = "Y" THEN "y" ELSE t

\* str.lower()
Lower(s) == [i \in 1..Len(s) |-> LowerTok(s[i])]

\* str.replace('`', ''): the only backticks of the token alphabet are fences
RemoveBackticks(s) == SelectSeq(s, LAMBDA t : t # "FENCE")

Msg(role, content) == [role |-> role, content |-> content]

system_message == Msg("system", <<"SYS">>)

----------------------------------------------------------------------------
(* The environment's inputs *)

\* What the backend may answer (one transport attempt that succeeds).
Responses ==
    { <<>>,
      <<"hi">>,
      <<"TOOL", "sp", "URL", "nl", "FENCE", "bash", "nl", "ls", "nl", "FENCE">>,
      <<"FENCE", "BASH", "nl", "ls", "nl", "FENCE">>,
      <<"FNAME", "foo.py", "nl", "FENCE", "python", "nl", "code", "nl", "FENCE">>,
      <<"FENCE", "python", "nl", "code", "nl", "FENCE">> }

\* What the operator may type at the main prompt (besides exit / quit).
Prompts == { <<"hi">> }

\* What the operator may type at a [y/N] prompt.
Answers == { <<"y">>, <<"sp", "Y", "sp">>, <<"n">>, <<>> }

\* What a fetched page's text may be.
Pages == { <<"page">> }

Stdouts == { <<"out">> }

Stderrs == { <<"oops">> }

----------------------------------------------------------------------------
(* extract_code_block and the other text functions *)

\* re.search(r"filename: (.*?)\n", text): the leftmost "filename: " that has
\* a newline after it; group 1 runs to the first such newline.
filename_match(text) ==
    LET starts == {i \in 1..Len(text) :
                      text[i] = "FNAME" /\ \E j \in (i+1)..Len(text) : text[j] = "nl"}
    IN  IF starts = {} THEN None
        ELSE LET i == Min(starts)
                 j == Min({k \in (i+1)..Len(text) : text[k] = "nl"})
             IN  Strip(SubSeq(text, i + 1, j - 1))

\* Fault variant: a greedy second group, which runs to the last fence.
code_match_greedy(text) ==
    LET ok(i) == /\ text[i] = "FENCE"
                 /\ \E j \in (i+1)..Len(text) :
                       /\ text[j] = "nl"
                       /\ \E k \in (j+1)..Len(text) : text[k] = "FENCE"
        starts == {i \in 1..Len(text) : ok(i)}
    IN  IF starts = {} THEN <<>>
        ELSE LET i == Min(starts)
                 j == Min({n \in (i+1)..Len(text) :
                              /\ text[n] = "nl"
                              /\ \E k \in (n+1)..Len(text) : text[k] = "FENCE"})
                 k == Max({n \in (j+1)..Len(text) : text[n] = "FENCE"})
             IN  <<i, j, k>>

\* re.search(r"```(.*?)\n(.*?)```", text, re.DOTALL): positions <<i, j, k>>
\* of the opening fence, the newline ending group 1 and the closing fence of
\* the leftmost match with lazy groups; <<>> when nothing matches.
code_match(text) ==
    LET ok(i) == /\ text[i] = "FENCE"
                 /\ \E j \in (i+1)..Len(text) :
                       /\ text[j] = "nl"
                       /\ \E k \in (j+1)..Len(text) : text[k] = "FENCE"
        starts == {i \in 1..Len(text) : ok(i)}
    IN  IF starts = {} THEN <<>>
        ELSE LET i == Min(starts)
                 j == Min({n \in (i+1)..Len(text) :
                              /\ text[n] = "nl"
                              /\ \E k \in (n+1)..Len(text) : text[k] = "FENCE"})
                 k == Min({n \in (j+1)..Len(text) : text[n] = "FENCE"})
             IN  <<i, j, k>>

\* Fault variant: the language tag is not lower-cased.
extract_code_block_noLower(response_text) ==
    LET filename == filename_match(response_text)
        m == code_match(response_text)
    IN  IF m # <<>>
        THEN [filename |-> filename,
              language |-> Strip(SubSeq(response_text, m[1] + 1, m[2] - 1)),
              code     |-> Strip(SubSeq(response_text, m[2] + 1, m[3] - 1))]
        ELSE [filename |-> filename, language |-> None, code |-> None]

extract_code_block(response_text) ==
    LET filename == filename_match(response_text)
        m == code_match(response_text)
    IN  IF m # <<>>
        THEN [filename |-> filename,
              language |-> Lower(Strip(SubSeq(response_text, m[1] + 1, m[2] - 1))),
              code     |-> Strip(SubSeq(response_text, m[2] + 1, m[3] - 1))]
        ELSE [filename |-> filename, language |-> None, code |-> None]

\* re.search(r'\[TOOL_WEB\]\s*(https?://[^\s\]]+)', text): group 1 of the
\* leftmost match, None when nothing matches.  Group 1 starts at a URL token
\* and takes the tokens glued to it up to whitespace or a bracket.
tool_match(text) ==
    LET ok(i) == /\ text[i] = "TOOL"
                 /\ \E j \in (i+1)..Len(text) :
                       /\ text[j] = "URL"
                       /\ \A k \in (i+1)..(j-1) : IsWs(text[k])
        starts == {i \in 1..Len(text) : ok(i)}
    IN  IF starts = {} THEN None
        ELSE LET i == Min(starts)
                 j == Min({n \in (i+1)..Len(text) : text[n] = "URL"})
                 stops == {n \in (j+1)..Len(text) : IsWs(text[n]) \/ text[n] = "TOOL"}
                 e == IF stops = {} THEN Len(text) ELSE Min(stops) - 1
             IN  SubSeq(text, j, e)

\* generate_filename: re.search(r'([\w_./-]+\.\w+)', text) inside one token
NameIn(t) ==
    IF t \in {"foo.py", "bar.py"} THEN <<t>>
    ELSE IF t = "URL" THEN <<"//example.com">>
    ELSE None

\* the leftmost match of that pattern in a text; None when nothing matches
name_match(text) ==
    LET hits == {i \in 1..Len(text) : NameIn(text[i]) # None}
    IN  IF hits = {} THEN None ELSE NameIn(text[Min(hits)])

\* Fault variant: no fallback name; the name stays absent.
generate_filename_result_noFallback(filename_response, language) ==
    IF Truthy(filename_response) /\ name_match(filename_response) # None
    THEN name_match(filename_response)
    ELSE None

\* generate_filename, after its backend call returned filename_response
generate_filename_result(filename_response, language) ==
    IF Truthy(filename_response) /\ name_match(filename_response) # None
    THEN name_match(filename_response)
    ELSE <<"generated_code_", "TIME", ".">>
            \o (IF Truthy(language) THEN language ELSE <<"txt">>)

\* fetch_url_content: text[:max_length]
Truncate(text) == SubSeq(text, 1, IF Len(text) < max_length THEN Len(text) ELSE max_length)

fetch_error_text == <<"Error: Could not fetch the URL. The error was: ", "E">>

----------------------------------------------------------------------------
(* The texts the program composes *)

web_context_prompt(u, web_content) ==
    <<"Here is the text content from the URL ">> \o u
       \o <<":\n\n--- WEB CONTENT ---\n">> \o web_content
       \o <<"\n--- END WEB CONTENT ---\n\nBased on this content, please answer my original question.">>

success_message(c, stdout) ==
    <<"Command (bt)">> \o c \o <<"(bt) was successful. Output:\n(bt)(bt)(bt)\n">> \o stdout \o <<"\n(bt)(bt)(bt)">>

debug_prompt(c, stderr, a) ==
    IF Truthy(a.filename) /\ Truthy(a.code)
    THEN <<"Command (bt)">> \o c \o <<"(bt) failed on (bt)">> \o a.filename
            \o <<"(bt). Error:\n(bt)(bt)(bt)\n">> \o stderr \o <<"\n(bt)(bt)(bt)\nOriginal code:\n(bt)(bt)(bt)">>
            \o a.language \o <<"\n">> \o a.code \o <<"\n(bt)(bt)(bt)\nProvide a fix.">>
    ELSE <<"Command (bt)">> \o c \o <<"(bt) failed. Error:\n(bt)(bt)(bt)\n">> \o stderr
            \o <<"\n(bt)(bt)(bt)\nProvide the corrected command.">>

filename_messages(code, language) ==
    << Msg("user", <<"Suggest a concise, snake_case filename for this (q)">> \o language
                      \o <<"(q) code. Respond ONLY with the filename.\n\nCode:\n(bt)(bt)(bt)\n">>
                      \o code \o <<"\n(bt)(bt)(bt)">>) >>

run_messages(filename, language) ==
    << Msg("system", <<"Provide ONLY the shell command to run the given file in the specified language.">>),
       Msg("user", <<"Command to run (q)">> \o filename \o <<"(q) in ">> \o language \o <<"?">>) >>

\* handle_response lines 144-145: the command taken from the run-command reply
run_command_of(run_command_response) ==
    LET c == extract_code_block(run_command_response).code
    IN  IF Truthy(c) THEN c ELSE RemoveBackticks(Strip(run_command_response))

NoArt == [filename |-> None, language |-> None, code |-> None]

Ev(e, a) == [ev |-> e, arg |-> a]

\* input(...).strip().lower()
Normalize(answer) == Lower(Strip(answer))

\* Fault variant: only a literal n declines.
Declined_onlyN(confirm) == confirm = <<"n">>

\* confirm != 'y'
Declined(confirm) == confirm # <<"y">>

\* Fault variant: insert at the front.
AppendMsg_front(h, m) == <<m>> \o h

\* messages.append(m)
AppendMsg(h, m) == Append(h, m)

----------------------------------------------------------------------------
(* handle_response *)

\* Fault variant: the fenced block is looked for before the tool marker.
Classify_fenceFirst(ai_response) ==
    LET u == tool_match(ai_response)
        b == extract_code_block(ai_response)
    IN  IF Truthy(b.code) /\ b.language \in {<<"bash">>, <<"sh">>, <<"shell">>}
        THEN [kind |-> "ShellCommand", url |-> None, filename |-> None, language |-> b.language, code |-> b.code]
        ELSE IF Truthy(b.code)
        THEN [kind |-> "FileArtifact", url |-> None, filename |-> b.filename, language |-> b.language, code |-> b.code]
        ELSE IF u # None
        THEN [kind |-> "WebTool", url |-> u, filename |-> None, language |-> None, code |-> None]
        ELSE [kind |-> "None", url |-> None, filename |-> None, language |-> None, code |-> None]

\* Fault variant: only a missing block, not an empty body, yields no action.
Classify_emptyBody(ai_response) ==
    LET u == tool_match(ai_response)
        b == extract_code_block(ai_response)
    IN  IF u # None
        THEN [kind |-> "WebTool", url |-> u, filename |-> None, language |-> None, code |-> None]
        ELSE IF b.code = None
        THEN [kind |-> "None", url |-> None, filename |-> None, language |-> None, code |-> None]
        ELSE IF b.language \in {<<"bash">>, <<"sh">>, <<"shell">>}
        THEN [kind |-> "ShellCommand", url |-> None, filename |-> None, language |-> b.language, code |-> b.code]
        ELSE [kind |-> "FileArtifact", url |-> None, filename |-> b.filename, language |-> b.language, code |-> b.code]

\* The action handle_response derives from a response (lines 96-125).
Classify(ai_response) ==
    LET u == tool_match(ai_response)
        b == extract_code_block(ai_response)
    IN  IF u # None
        THEN [kind |-> "WebTool", url |-> u, filename |-> None, language |-> None, code |-> None]
        ELSE IF ~Truthy(b.code)
        THEN [kind |-> "None", url |-> None, filename |-> None, language |-> None, code |-> None]
        ELSE IF b.language \in {<<"bash">>, <<"sh">>, <<"shell">>}
        THEN [kind |-> "ShellCommand", url |-> None, filename |-> None, language |-> b.language, code |-> b.code]
        ELSE [kind |-> "FileArtifact", url |-> None, filename |-> b.filename, language |-> b.language, code |-> b.code]

\* Control returns to main()'s loop: every active frame returns without a
\* further statement (each recursion is followed by `break` or `return`).
BackToMain(h, lg) ==
    /\ pc' = "prompt"
    /\ messages' = h
    /\ log' = lg
    /\ depth' = 0
    /\ site' = "none"
    /\ attempt' = 0
    /\ ret' = None
    /\ UNCHANGED <<req, url, cmd, art, err>>

\* call_ollama_api_stream(r, model) is entered from call site s
StartCall(s, r, h, lg) ==
    /\ pc' = "call"
    /\ site' = s
    /\ req' = r
    /\ attempt' = 0
    /\ ret' = None
    /\ messages' = h
    /\ log' = Append(lg, Ev("call", <<s>>))

\* execute_and_debug_command(c, messages, model, ...) is entered: the
\* execute prompt is shown
StartExecute(c, a, h, lg) ==
    /\ pc' = "confirm"
    /\ cmd' = c
    /\ art' = a
    /\ depth' = depth + 1
    /\ messages' = h
    /\ log' = Append(lg, Ev("prompt_execute", c))
    /\ site' = "none"
    /\ attempt' = 0
    /\ ret' = None
    /\ UNCHANGED <<req, url, err>>

\* handle_response(ai_response, messages, model) with the history h and the
\* events lg its caller leaves, up to its first blocking point
handle_response(ai_response, h, lg) ==
    LET a == Classify(ai_response)
    IN  /\ resp' = ai_response
        /\ mark' = Len(lg)
        /\ hmark' = Len(h)
        /\ CASE a.kind = "WebTool" ->
                  /\ pc' = "fetch"
                  /\ url' = a.url
                  /\ messages' = h
                  /\ log' = Append(lg, Ev("fetch", a.url))
                  /\ site' = "none" /\ attempt' = 0 /\ ret' = None
                  /\ UNCHANGED <<req, cmd, art, err, depth>>
             [] a.kind = "None" ->
                  BackToMain(h, lg)
             [] a.kind = "ShellCommand" ->
                  StartExecute(a.code, NoArt, h, lg)
             [] a.kind = "FileArtifact" ->
                  IF ~Truthy(a.filename)
                  THEN /\ StartCall("filename", filename_messages(a.code, a.language), h, lg)
                       /\ art' = [filename |-> None, language |-> a.language, code |-> a.code]
                       /\ UNCHANGED <<url, cmd, err, depth>>
                  ELSE /\ pc' = "write"
                       /\ art' = [filename |-> a.filename, language |-> a.language, code |-> a.code]
                       /\ messages' = h
                       /\ log' = lg
                       /\ site' = "none" /\ attempt' = 0 /\ ret' = None
                       /\ UNCHANGED <<req, url, cmd, err, depth>>

----------------------------------------------------------------------------
(* The state after main() has built the history (line 212) *)

Init ==
    /\ pc = "prompt"
    /\ messages = <<system_message>>
    /\ log = <<>>
    /\ site = "none"
    /\ attempt = 0
    /\ ret = None
    /\ req = <<>>
    /\ resp = None
    /\ mark = 0
    /\ hmark = 0
    /\ url = None
    /\ cmd = None
    /\ art = NoArt
    /\ err = None
    /\ depth = 0

----------------------------------------------------------------------------
(* main *)

\* lines 219-227: the operator types a prompt; it is appended and sent
UserTurn(prompt) ==
    /\ pc = "prompt"
    /\ Len(messages) < MaxHistory
    /\ StartCall("main", AppendMsg(messages, Msg("user", prompt)),
                 AppendMsg(messages, Msg("user", prompt)), <<>>)
    /\ resp' = None /\ mark' = 0 /\ hmark' = 0
    /\ url' = None /\ cmd' = None /\ art' = NoArt /\ err' = None
    /\ UNCHANGED depth

\* lines 220-222 and 231-234: exit, quit, EOF or an interrupt at the main
\* prompt ends the session
Quit ==
    /\ pc = "prompt"
    /\ pc' = "exited"
    /\ UNCHANGED <<messages, log, site, attempt, ret, req, resp, mark, hmark, url, cmd, art, err, depth>>

\* lines 231-234: EOF at a [y/N] prompt, or the operator's interrupt while
\* the program waits for the terminal, the backend, the fetch, the file
\* system or the process, ends the session ("Exiting..." is printed)
Interrupt ==
    /\ pc \in {"confirm", "debug", "call", "fetch", "write", "run"}
    /\ pc' = "exited"
    /\ UNCHANGED <<messages, log, site, attempt, ret, req, resp, mark, hmark, url, cmd, art, err, depth>>

----------------------------------------------------------------------------
(* call_ollama_api_stream *)

\* lines 36-47: the attempt succeeds (every chunk of the stream is a JSON
\* object) and the full text is returned
AttemptOk(full_response) ==
    /\ pc = "call"
    /\ pc' = "returned"
    /\ ret' = full_response
    /\ UNCHANGED <<messages, log, site, attempt, req, resp, mark, hmark, url, cmd, art, err, depth>>

\* Fault variant: off by one in the retry bound.
LastAttempt_late(a) == a = max_retries

\* line 50
LastAttempt(a) == a = max_retries - 1

\* lines 48-50: the attempt raises a RequestException.  A verbose call
\* prints the error at every failed attempt; the log keeps the last one.
AttemptFail ==
    /\ pc = "call"
    /\ IF LastAttempt(attempt)
       THEN /\ pc' = "returned"
            /\ ret' = None
            /\ attempt' = attempt
            /\ log' = IF site \in {"main", "web", "debug"}
                      THEN Append(log, Ev("say", <<"Error calling Ollama API">>))
                      ELSE log
       ELSE /\ pc' = "call"
            /\ attempt' = attempt + 1
            /\ UNCHANGED <<ret, log>>
    /\ UNCHANGED <<messages, site, req, resp, mark, hmark, url, cmd, art, err, depth>>

----------------------------------------------------------------------------
(* The code after each call of call_ollama_api_stream *)

\* main, lines 228-230
MainReturn ==
    /\ pc = "returned" /\ site = "main"
    /\ IF Truthy(ret)
       THEN handle_response(ret, AppendMsg(messages, Msg("assistant", ret)), log)
       ELSE /\ BackToMain(messages, log)
            /\ UNCHANGED <<resp, mark, hmark>>

\* Fault variant: the reply of the web tool is dispatched again.
WebReturn_reclassify ==
    /\ pc = "returned" /\ site = "web"
    /\ IF Truthy(ret)
       THEN handle_response(ret, AppendMsg(messages, Msg("assistant", ret)), log)
       ELSE /\ BackToMain(messages, log)
            /\ UNCHANGED <<resp, mark, hmark>>

\* handle_response, lines 114-118
WebReturn ==
    /\ pc = "returned" /\ site = "web"
    /\ BackToMain(IF Truthy(ret) THEN AppendMsg(messages, Msg("assistant", ret)) ELSE messages, log)
    /\ UNCHANGED <<resp, mark, hmark>>

\* generate_filename, lines 177-180, then handle_response line 133
FilenameReturn ==
    /\ pc = "returned" /\ site = "filename"
    /\ pc' = "write"
    /\ art' = [art EXCEPT !.filename = generate_filename_result(ret, art.language)]
    /\ log' = IF Truthy(ret) /\ name_match(ret) # None
              THEN log ELSE Append(log, Ev("say", <<"Fallback">>))
    /\ site' = "none" /\ attempt' = 0 /\ ret' = None
    /\ UNCHANGED <<messages, req, resp, mark, hmark, url, cmd, err, depth>>

\* Fault variant: the run-command reply is appended to the history.
RunCmdReturn_appends ==
    /\ pc = "returned" /\ site = "runcmd"
    /\ IF ~Truthy(ret)
       THEN BackToMain(messages, Append(log, Ev("say", <<"Could not generate a run command.">>)))
       ELSE StartExecute(run_command_of(ret), art, AppendMsg(messages, Msg("assistant", ret)), log)
    /\ UNCHANGED <<resp, mark, hmark>>

\* handle_response, lines 143-146
RunCmdReturn ==
    /\ pc = "returned" /\ site = "runcmd"
    /\ IF ~Truthy(ret)
       THEN BackToMain(messages, Append(log, Ev("say", <<"Could not generate a run command.">>)))
       ELSE StartExecute(run_command_of(ret), art, messages, log)
    /\ UNCHANGED <<resp, mark, hmark>>

\* execute_and_debug_command, lines 169-171
DebugReturn ==
    /\ pc = "returned" /\ site = "debug"
    /\ IF Truthy(ret)
       THEN handle_response(ret, AppendMsg(messages, Msg("assistant", ret)), log)
       ELSE /\ BackToMain(messages, Append(log, Ev("say", <<"No debug response.">>)))
            /\ UNCHANGED <<resp, mark, hmark>>

----------------------------------------------------------------------------
(* handle_response: the web tool and the file artifact *)

\* fetch_url_content returns (lines 71-89), then lines 103-113
FetchDone(web_content) ==
    /\ pc = "fetch"
    /\ StartCall("web",
                 AppendMsg(messages, Msg("user", web_context_prompt(url, web_content))),
                 AppendMsg(messages, Msg("user", web_context_prompt(url, web_content))),
                 log)
    /\ UNCHANGED <<resp, mark, hmark, url, cmd, art, err, depth>>

\* lines 135-138 succeed, then lines 141-142
WriteOk ==
    /\ pc = "write"
    /\ StartCall("runcmd", run_messages(art.filename, art.language), messages,
                 Append(log, Ev("write", art.filename)))
    /\ UNCHANGED <<resp, mark, hmark, url, cmd, art, err, depth>>

\* Fault variant: after the report the run command is asked all the same.
WriteFail_goesOn ==
    /\ pc = "write"
    /\ StartCall("runcmd", run_messages(art.filename, art.language), messages,
                 Append(log, Ev("say", <<"Error saving file">>)))
    /\ UNCHANGED <<resp, mark, hmark, url, cmd, art, err, depth>>

\* lines 139-140
WriteFail ==
    /\ pc = "write"
    /\ BackToMain(messages, Append(log, Ev("say", <<"Error saving file">>)))
    /\ UNCHANGED <<resp, mark, hmark>>

----------------------------------------------------------------------------
(* execute_and_debug_command *)

\* Fault variant: the command is run whatever the answer.
Confirm_ungated(answer) ==
    /\ pc = "confirm"
    /\ pc' = "run"
    /\ log' = Append(Append(log, Ev("answer", Normalize(answer))), Ev("run", cmd))
    /\ UNCHANGED <<messages, site, attempt, ret, req, url, cmd, art, err, depth>>
    /\ UNCHANGED <<resp, mark, hmark>>

\* lines 153-157: the operator answers the execute prompt
Confirm(answer) ==
    /\ pc = "confirm"
    /\ IF Declined(Normalize(answer))
       THEN BackToMain(messages, Append(log, Ev("answer", Normalize(answer))))
       ELSE /\ pc' = "run"
            /\ log' = Append(Append(log, Ev("answer", Normalize(answer))), Ev("run", cmd))
            /\ UNCHANGED <<messages, site, attempt, ret, req, url, cmd, art, err, depth>>
    /\ UNCHANGED <<resp, mark, hmark>>

\* Fault variant: the success is shown but not appended.
RunOk_silent(stdout) ==
    /\ pc = "run"
    /\ BackToMain(messages, Append(log, Ev("exit0", cmd)))
    /\ UNCHANGED <<resp, mark, hmark>>

\* lines 157-160: exit status zero
RunOk(stdout) ==
    /\ pc = "run"
    /\ BackToMain(AppendMsg(messages, Msg("user", success_message(cmd, stdout))),
                  Append(log, Ev("exit0", cmd)))
    /\ UNCHANGED <<resp, mark, hmark>>

\* lines 161-163: CalledProcessError; stderr is shown and the debug prompt asked
RunFail(stderr) ==
    /\ pc = "run"
    /\ pc' = "debug"
    /\ err' = stderr
    /\ log' = Append(Append(log, Ev("say", <<"Error", "Stderr">> \o stderr)),
                     Ev("prompt_debug", cmd))
    /\ UNCHANGED <<messages, site, attempt, ret, req, resp, mark, hmark, url, cmd, art, depth>>

\* Fault variant: the exception is not caught and ends the process.
RunRaise_uncaught ==
    /\ pc = "run"
    /\ pc' = "crashed"
    /\ UNCHANGED <<messages, log, site, attempt, ret, req, resp, mark, hmark, url, cmd, art, err, depth>>

\* Fault variant: after the report the loop goes round and asks again.
RunRaise_reprompt ==
    /\ pc = "run"
    /\ pc' = "confirm"
    /\ log' = Append(Append(log, Ev("say", <<"Unexpected error">>)), Ev("prompt_execute", cmd))
    /\ UNCHANGED <<messages, site, attempt, ret, req, url, cmd, art, err, depth>>
    /\ UNCHANGED <<resp, mark, hmark>>

\* line 172: any other exception of subprocess.run
RunRaise ==
    /\ pc = "run"
    /\ BackToMain(messages, Append(log, Ev("say", <<"Unexpected error">>)))
    /\ UNCHANGED <<resp, mark, hmark>>

\* Fault variant: the repair request is appended to the history.
Debug_appends(answer) ==
    /\ pc = "debug"
    /\ IF Declined(Normalize(answer))
       THEN BackToMain(messages, Append(log, Ev("answer", Normalize(answer))))
       ELSE /\ Len(messages) < MaxHistory
            /\ StartCall("debug",
                         messages \o <<Msg("user", debug_prompt(cmd, err, art))>>,
                         messages \o <<Msg("user", debug_prompt(cmd, err, art))>>,
                         Append(log, Ev("answer", Normalize(answer))))
            /\ UNCHANGED <<url, cmd, art, err, depth>>
    /\ UNCHANGED <<resp, mark, hmark>>

\* Fault variant: the program itself refuses a second repair round.
Debug_oneRound(answer) ==
    /\ pc = "debug"
    /\ IF Declined(Normalize(answer)) \/ depth >= 2
       THEN BackToMain(messages, Append(log, Ev("answer", Normalize(answer))))
       ELSE /\ Len(messages) < MaxHistory
            /\ StartCall("debug",
                         messages \o <<Msg("user", debug_prompt(cmd, err, art))>>,
                         messages,
                         Append(log, Ev("answer", Normalize(answer))))
            /\ UNCHANGED <<url, cmd, art, err, depth>>
    /\ UNCHANGED <<resp, mark, hmark>>

\* lines 163-168: the operator answers the debug prompt
Debug(answer) ==
    /\ pc = "debug"
    /\ IF Declined(Normalize(answer))
       THEN BackToMain(messages, Append(log, Ev("answer", Normalize(answer))))
       ELSE /\ Len(messages) < MaxHistory
            /\ StartCall("debug",
                         messages \o <<Msg("user", debug_prompt(cmd, err, art))>>,
                         messages,
                         Append(log, Ev("answer", Normalize(answer))))
            /\ UNCHANGED <<url, cmd, art, err, depth>>
    /\ UNCHANGED <<resp, mark, hmark>>

----------------------------------------------------------------------------

Next ==
    \/ \E p \in Prompts : UserTurn(p)
    \/ Quit
    \/ Interrupt
    \/ \E r \in Responses : AttemptOk(r)
    \/ AttemptFail
    \/ MainReturn
    \/ WebReturn
    \/ FilenameReturn
    \/ RunCmdReturn
    \/ DebugReturn
    \/ \E w \in Pages \cup {fetch_error_text} : FetchDone(Truncate(w))
    \/ WriteOk
    \/ WriteFail
    \/ \E a \in Answers : Confirm(a)
    \/ \E o \in Stdouts : RunOk(o)
    \/ \E e \in Stderrs : RunFail(e)
    \/ RunRaise
    \/ \E a \in Answers : Debug(a)

Spec == Init /\ [][Next]_vars

----------------------------------------------------------------------------
(* The classifier on composed responses: the first reply of a session is any
   text made of a preamble, a fenced block (or none) and a trailer, and the
   program dispatches it up to the run of the proposed command. *)

Preambles ==
    { <<>>,
      <<"hi", "nl">>,
      <<"FNAME", "foo.py", "nl">>,
      <<"FNAME", "sp", "nl">>,
      <<"TOOL", "sp", "URL", "nl">>,
      <<"TOOL", "nl">> }

Tags == { <<>>, <<"bash">>, <<"BASH", "sp">>, <<"sh">>, <<"shell">>, <<"python">> }

Bodies ==
    { <<>>,
      <<"sp", "nl">>,
      <<"ls", "nl">>,
      <<"FNAME", "bar.py", "nl", "code", "nl">> }

\* a block is closed by a fence, or left unterminated
Closings == { <<"FENCE">>, <<>> }

Blocks ==
    { <<>> } \cup
    { <<"FENCE">> \o tag \o <<"nl">> \o body \o close :
         tag \in Tags, body \in Bodies, close \in Closings }

Trailers ==
    { <<>>,
      <<"nl", "FNAME", "bar.py", "nl">>,
      <<"nl", "FENCE", "sh", "nl", "rm", "nl", "FENCE">>,
      <<"nl", "FENCE", "sh", "nl", "FNAME", "bar.py", "nl", "FENCE">>,
      <<"nl", "FENCE", "sh", "nl", "TOOL", "sp", "URL", "nl", "FENCE">> }

Texts == { pre \o blk \o post : pre \in Preambles, blk \in Blocks, post \in Trailers }

\* main() at line 228 of the first turn: the backend has returned some text
ClassifierInit ==
    /\ pc = "returned"
    /\ site = "main"
    /\ ret \in Texts
    /\ messages = <<system_message, Msg("user", <<"hi">>)>>
    /\ req = <<system_message, Msg("user", <<"hi">>)>>
    /\ log = <<Ev("call", <<"main">>)>>
    /\ attempt = 0
    /\ resp = None
    /\ mark = 0
    /\ hmark = 0
    /\ url = None
    /\ cmd = None
    /\ art = NoArt
    /\ err = None
    /\ depth = 0

ClassifierNext ==
    \/ MainReturn
    \/ \E r \in Responses : AttemptOk(r)
    \/ AttemptFail
    \/ FilenameReturn
    \/ WriteOk
    \/ WriteFail
    \/ \E a \in Answers : Confirm(a)

ClassifierSpec == ClassifierInit /\ [][ClassifierNext]_vars

----------------------------------------------------------------------------
(* Vocabulary of the properties *)

Last(q) == q[Len(q)]

IsPrefix(a, b) == Len(a) <= Len(b) /\ SubSeq(b, 1, Len(a)) = a

Yes == Ev("answer", <<"y">>)

IsRepairRequest(m) ==
    /\ m.role = "user"
    /\ Len(m.content) >= 3
    /\ m.content[1] = "Command (bt)"
    /\ \E k \in 2..Len(m.content) :
          m.content[k] \in {"(bt) failed on (bt)", "(bt) failed. Error:\n(bt)(bt)(bt)\n"}

IsSuccessSummary(m) ==
    /\ m.role = "user"
    /\ Len(m.content) >= 3
    /\ m.content[1] = "Command (bt)"
    /\ \E k \in 2..Len(m.content) :
          m.content[k] = "(bt) was successful. Output:\n(bt)(bt)(bt)\n"

\* the message of the operator's prompt that began the current turn
TurnStart ==
    Max({0} \cup {i \in 1..Len(messages) :
                     messages[i].role = "user" /\ messages[i].content \in Prompts})

\* the events since the last repair call (all of them when there is none)
SinceRepair ==
    LET d == Max({0} \cup {i \in 1..Len(log) : log[i] = Ev("call", <<"debug">>)})
    IN  SubSeq(log, d + 1, Len(log))

\* The first fenced block of a text, read off the text: the first fence,
\* the first newline after it (the end of the language-tag line) and the
\* first fence after that newline; 0 where there is none.
FirstAt(t, from, tok) ==
    LET S == {n \in from..Len(t) : t[n] = tok}
    IN  IF S = {} THEN 0 ELSE Min(S)

OpenFence(t) == FirstAt(t, 1, "FENCE")

TagEnd(t) == IF OpenFence(t) = 0 THEN 0 ELSE FirstAt(t, OpenFence(t) + 1, "nl")

CloseFence(t) == IF TagEnd(t) = 0 THEN 0 ELSE FirstAt(t, TagEnd(t) + 1, "FENCE")

HasBlock(t) == CloseFence(t) # 0

Tag1(t) == SubSeq(t, OpenFence(t) + 1, TagEnd(t) - 1)

Body1(t) == SubSeq(t, TagEnd(t) + 1, CloseFence(t) - 1)

\* the text up to the closing fence of its first block
UpToFirstBlock(t) == SubSeq(t, 1, CloseFence(t))

Fences(t) == {i \in 1..Len(t) : t[i] = "FENCE"}

----------------------------------------------------------------------------
(* C1: every run of the process runner with command c comes immediately
   after an execute prompt that showed exactly c and was answered 'y'; this
   holds for the first proposal and for each proposal of a repair recursion,
   and each run has an answer of its own. *)
C1_RunFollowsItsConfirmation ==
    /\ \A i \in 1..Len(log) :
          log[i].ev = "run" =>
             /\ i >= 3
             /\ log[i-1] = Yes
             /\ log[i-2] = Ev("prompt_execute", log[i].arg)
    /\ pc = "run" => Last(log) = Ev("run", cmd)

C1_Witness ==
    \E i, j \in 1..Len(log) : i < j /\ log[i].ev = "run" /\ log[j].ev = "run"

(* C2 as stated: every run, file write and fetch of a turn comes after an
   affirmative answer of the operator. *)
C2_EverySideEffectConfirmed ==
    \A i \in 1..Len(log) :
       log[i].ev \in {"run", "write", "fetch"} => \E j \in 1..(i-1) : log[j] = Yes

(* C2, amended: only the run of a shell command is gated.  There are never
   more runs than affirmative answers to execute prompts; a file write or a
   fetch is made with no prompt shown between the reply that asked for it
   and the effect. *)
C2_OnlyRunsAreConfirmed ==
    /\ \A i \in 1..Len(log) :
          Cardinality({k \in 1..i : log[k].ev = "run"})
             <= Cardinality({k \in 2..i : log[k] = Yes /\ log[k-1].ev = "prompt_execute"})
    /\ Last(<<Ev("none", <<>>)>> \o log).ev \in {"write", "fetch"} =>
          \A k \in 1..Len(SinceRepair) :
             SinceRepair[k].ev \notin {"prompt_execute", "prompt_debug", "answer"}

C2_Witness ==
    \E i, j \in 1..Len(log) :
       /\ i < j
       /\ log[i].ev = "write"
       /\ \A k \in 1..i : log[k] # Yes
       /\ log[j].ev = "run"

(* C3 as stated: once the operator has accepted the repair of a failed
   command, the history holds exactly one repair-request message. *)
C3_RepairRequestAppended ==
    (site = "debug" /\ pc \in {"call", "returned"}) =>
       Cardinality({i \in (TurnStart + 1)..Len(messages) : IsRepairRequest(messages[i])}) = 1

(* C3, amended: the repair request is sent to the backend behind the
   history but never appended to it, so the history holds no repair-request
   message; and when a command confirmed after a repair succeeds, the turn
   has appended exactly one success summary, as the last message and right
   after the assistant's repair reply. *)
C3_RepairRequestOnlySent ==
    /\ \A i \in 1..Len(messages) : ~IsRepairRequest(messages[i])
    /\ (site = "debug" /\ pc \in {"call", "returned"}) =>
          /\ req = messages \o <<Msg("user", debug_prompt(cmd, err, art))>>
          /\ IsRepairRequest(Last(req))
    /\ ((\E i \in 1..Len(log) : log[i] = Ev("call", <<"debug">>))
          /\ Len(log) > 0 /\ Last(log).ev = "exit0") =>
          /\ Cardinality({i \in (TurnStart + 1)..Len(messages) :
                             IsSuccessSummary(messages[i])}) = 1
          /\ IsSuccessSummary(Last(messages))
          /\ Len(SinceRepair) = 4 => messages[Len(messages) - 1].role = "assistant"

C3_Witness ==
    /\ \E i \in 1..Len(log) : log[i] = Ev("call", <<"debug">>)
    /\ Len(log) > 0 /\ Last(log).ev = "exit0"
    /\ Len(SinceRepair) = 4

(* C4: an answer other than 'y' at the execute prompt or at the repair
   prompt ends the cycle at once: the step that takes the answer returns to
   the main prompt, leaves the history as it was when the prompt was shown
   and adds no event but the answer; nothing follows a declining answer in
   the turn. *)
C4_DeclineEndsTheCycle ==
    /\ [][ (/\ pc \in {"confirm", "debug"}
            /\ log' # log
            /\ Last(log').ev = "answer"
            /\ Last(log').arg # <<"y">>)
           => (/\ pc' = "prompt"
               /\ messages' = messages
               /\ log' = Append(log, Last(log'))
               /\ depth' = 0) ]_vars
    /\ [](\A i \in 1..Len(log) :
            (log[i].ev = "answer" /\ log[i].arg # <<"y">>) =>
               i = Len(log) /\ pc \in {"prompt", "exited"})

C4_Witness ==
    /\ pc = "prompt"
    /\ Len(log) >= 2
    /\ Last(log) = Ev("answer", <<"n">>)
    /\ log[Len(log) - 1].ev = "prompt_debug"

(* C5: the history is append-only: every step leaves the earlier history a
   prefix of the later one. *)
C5_HistoryAppendOnly == [][IsPrefix(messages, messages')]_vars

C5_Witness ==
    /\ Len(messages) >= 5
    /\ \E i \in 1..Len(messages) : IsSuccessSummary(messages[i])
    /\ \E i \in 1..Len(messages) : messages[i].role = "assistant"

(* C6: when a repair was asked of the backend and the reply led to no new
   action, the chain does not end before the operator has been told so: the
   last event of the ended chain is a message to the operator. *)
C6_NoFixIsReported ==
    (/\ pc = "prompt"
     /\ \E i \in 1..Len(log) :
           /\ log[i] = Ev("call", <<"debug">>)
           /\ \A k \in (i+1)..Len(log) :
                 log[k].ev \notin {"fetch", "write", "prompt_execute", "call"})
    => Last(log).ev = "say"

(* C7: a backend call makes at most max_retries transport attempts, returns
   the text of the first attempt that succeeds, and returns the absent
   result only when the attempt numbered max_retries has failed; when the
   call of a turn returns absent, control goes back to the main prompt with
   no event and with the history as it was sent. *)
C7_BoundedRetries ==
    /\ [](pc = "call" => attempt \in 0..(max_retries - 1))
    /\ []((pc = "returned" /\ ret = None) => attempt + 1 = max_retries)
    /\ []((pc \in {"call", "returned"} /\ site = "main") => messages = req)
    /\ [][ (pc = "call" /\ pc' = "returned" /\ ret' # None)
           => (ret' \in Responses /\ attempt' = attempt) ]_vars
    /\ [][ (pc = "returned" /\ site = "main" /\ ret = None)
           => (pc' = "prompt" /\ messages' = messages /\ log' = log) ]_vars

C7_Witness ==
    /\ pc = "prompt"
    /\ log = <<Ev("call", <<"main">>), Ev("say", <<"Error calling Ollama API">>)>>
    /\ Last(messages).role = "user"

(* C8: when the response handed to handle_response holds the tool marker
   followed by a URL, the one action taken for it is the web tool with that
   URL: its first event is the fetch of the URL, there is no second fetch,
   and no command is proposed or run and no file written for it, whatever
   fenced blocks or filename lines it holds. *)
C8_ToolMarkerWins ==
    (resp # None /\ tool_match(resp) # None) =>
       LET ev == SubSeq(log, mark + 1, Len(log))
       IN  /\ Len(ev) >= 1
           /\ ev[1] = Ev("fetch", tool_match(resp))
           /\ ev[1].arg[1] = "URL"
           /\ Cardinality({k \in 1..Len(ev) : ev[k].ev = "fetch"}) = 1
           /\ \A k \in 1..Len(ev) :
                 ev[k].ev \notin {"prompt_execute", "answer", "run", "write"}

C8_Witness ==
    /\ pc = "prompt"
    /\ resp # None /\ tool_match(resp) # None
    /\ code_match(resp) # <<>>
    /\ Len(log) >= mark + 2

(* C9: a web-tool dispatch makes one fetch, then appends one user message
   that carries the fetched text between the delimiters, then makes one
   backend call with the whole history; the reply, when present, is appended
   as one assistant message and nothing is dispatched from it: after the
   call of the web tool the turn has no further event but the report of a
   failed call. *)
C9_WebToolDispatch ==
    /\ \A i \in 1..Len(log) :
          log[i].ev = "fetch" =>
             IF i = Len(log) THEN pc \in {"fetch", "exited"}
             ELSE log[i+1] = Ev("call", <<"web">>)
    /\ \A i \in 1..Len(log) :
          log[i] = Ev("call", <<"web">>) =>
             /\ i > 1 /\ log[i-1].ev = "fetch"
             /\ \/ i = Len(log)
                \/ /\ i + 1 = Len(log)
                   /\ log[i+1] = Ev("say", <<"Error calling Ollama API">>)
                   /\ pc # "call"
    /\ (site = "web" /\ pc \in {"call", "returned"}) =>
          /\ req = messages
          /\ Len(messages) = hmark + 1
    /\ (Len(log) > 0 /\ Last(log).ev = "fetch") => Len(messages) = hmark
    /\ (\E i \in 1..Len(log) : log[i] = Ev("call", <<"web">>)) =>
          /\ Len(messages) \in {hmark + 1, hmark + 2}
          /\ \E w \in Pages \cup {fetch_error_text} :
                messages[hmark + 1] = Msg("user", web_context_prompt(url, Truncate(w)))
          /\ Len(messages) = hmark + 2 =>
                /\ Last(messages).role = "assistant"
                /\ Last(log) = Ev("call", <<"web">>)
                /\ pc \in {"prompt", "exited"}

C9_Witness ==
    /\ pc = "prompt"
    /\ Len(log) > 0 /\ Last(log) = Ev("call", <<"web">>)
    /\ Len(messages) = hmark + 2
    /\ Classify(Last(messages).content).kind = "ShellCommand"

(* C10: no outcome of a run ends the session (only the operator's interrupt
   does).  A non-zero exit shows the error and asks the debug prompt; an
   unexpected error of the run is reported and returns to the main prompt
   with the history unchanged, and no debug prompt and no backend call
   follows it in the turn. *)
C10_RunFailureNotFatal ==
    /\ [](pc \in {"prompt", "call", "returned", "fetch", "write", "confirm", "run",
                  "debug", "exited"})
    /\ [][ (pc = "run" /\ log' # log) => pc' \in {"debug", "prompt"} ]_vars
    /\ [][ (pc = "run" /\ log' = log) => pc' \in {"run", "exited"} ]_vars
    /\ [][ (pc = "run" /\ pc' = "debug") => messages' = messages ]_vars
    /\ [][ (pc = "run" /\ Last(log') = Ev("say", <<"Unexpected error">>))
           => (pc' = "prompt" /\ messages' = messages) ]_vars
    /\ [](\A i \in 1..Len(log) :
            log[i] = Ev("say", <<"Unexpected error">>) =>
               /\ i = Len(log)
               /\ pc \in {"prompt", "exited"}
               /\ i > 1 /\ log[i-1].ev = "run")
    /\ [](\A i \in 1..Len(log) :
            (log[i].ev = "say" /\ log[i].arg[1] = "Error") =>
               /\ i > 1 /\ log[i-1].ev = "run"
               /\ i < Len(log) /\ log[i+1].ev = "prompt_debug")

C10_Witness ==
    /\ pc = "prompt"
    /\ Len(log) > 0 /\ Last(log) = Ev("say", <<"Unexpected error">>)
    /\ Len(messages) < MaxHistory

(* C11 as stated: the chain is ended by a bound of the program's own, before
   the operator stops approving.  The operator of the model accepts a repair
   while the history holds fewer than MaxHistory messages, which lets a chain
   reach MaxHistory - 2 proposals; a program with a bound of its own would
   stop the chain below that. *)
C11_RepairRoundsBounded == depth < MaxHistory - 2

(* C11, amended: the repair cycle has no bound of its own; each round is
   paid by a fresh affirmative answer at the repair prompt.  Every accepted
   repair is sent to the backend, whatever the number of rounds before it;
   there are exactly as many repair calls as accepted repairs, the chain
   holds one more proposal than repair calls at most, and the chain is over
   (no active invocation) at the main prompt. *)
C11_ChainLastsWhileApproved ==
    /\ \A i \in 2..Len(log) :
          (log[i] = Yes /\ log[i-1].ev = "prompt_debug") =>
             i < Len(log) /\ log[i+1] = Ev("call", <<"debug">>)
    /\ Cardinality({i \in 1..Len(log) : log[i] = Ev("call", <<"debug">>)})
          = Cardinality({i \in 2..Len(log) : log[i] = Yes /\ log[i-1].ev = "prompt_debug"})
    /\ depth <= 1 + Cardinality({i \in 1..Len(log) : log[i] = Ev("call", <<"debug">>)})
    /\ pc = "prompt" => depth = 0

C11_Witness ==
    /\ pc = "debug"
    /\ depth >= 2
    /\ Cardinality({i \in 1..Len(log) : log[i] = Ev("call", <<"debug">>)}) = depth - 1

(* C12 as stated: in a response with two complete fenced blocks or more,
   the block extracted is the first one, from the first opening fence to the
   nearest fence after its language-tag line, and the later blocks have no
   influence on the action derived: it is the action derived from the text
   up to the closing fence of the first block. *)
C12_LaterBlocksIgnored ==
    (resp # None /\ HasBlock(resp) /\ Cardinality(Fences(resp)) >= 4) =>
       /\ code_match(resp) = <<OpenFence(resp), TagEnd(resp), CloseFence(resp)>>
       /\ Classify(resp) = Classify(UpToFirstBlock(resp))

(* C12, amended: the block extracted is the first one, from the first
   opening fence to the nearest fence after its language-tag line; the
   language and the body are those of the first block whatever follows it,
   and the command proposed or the code written is that body. *)
C12_FirstBlockExtracted ==
    resp # None =>
       /\ (code_match(resp) # <<>>) <=> HasBlock(resp)
       /\ HasBlock(resp) =>
             /\ code_match(resp) = <<OpenFence(resp), TagEnd(resp), CloseFence(resp)>>
             /\ extract_code_block(resp).language = Lower(Strip(Tag1(resp)))
             /\ extract_code_block(resp).code = Strip(Body1(resp))
             /\ extract_code_block(resp).language
                   = extract_code_block(UpToFirstBlock(resp)).language
             /\ extract_code_block(resp).code
                   = extract_code_block(UpToFirstBlock(resp)).code
       /\ (tool_match(resp) = None /\ HasBlock(resp) /\ Strip(Body1(resp)) # <<>>) =>
             /\ cmd # None \/ art # NoArt
             /\ cmd # None => cmd = Strip(Body1(resp))
             /\ art # NoArt =>
                   /\ art.code = Strip(Body1(resp))
                   /\ art.language = Lower(Strip(Tag1(resp)))

C12_Witness ==
    /\ resp # None
    /\ Cardinality(Fences(resp)) = 4
    /\ Tag1(resp) = <<"python">>
    /\ art.language = <<"python">>
    /\ art.code = <<"ls">>
    /\ \E k \in (mark + 1)..Len(log) : log[k].ev = "write"

(* C13 as stated: the filename of a file artifact comes only from a
   filename line before the opening fence.  With no such line before the
   fence the dispatch begins by asking the backend for a name; with the line
   "filename: foo.py" first, the name is foo.py and no name is asked. *)
C13_FilenameOnlyBeforeFence ==
    (resp # None /\ tool_match(resp) = None /\ HasBlock(resp) /\ art # NoArt) =>
       /\ (\A i \in 1..(OpenFence(resp) - 1) : resp[i] # "FNAME") =>
             /\ Len(log) > mark
             /\ log[mark + 1] = Ev("call", <<"filename">>)
       /\ SubSeq(resp, 1, 3) = <<"FNAME", "foo.py", "nl">> =>
             /\ art.filename = <<"foo.py">>
             /\ \A k \in (mark + 1)..Len(log) : log[k] # Ev("call", <<"filename">>)

(* C14: a response without the tool marker and a URL that has no fenced
   block, an unterminated fence or a block whose trimmed body is empty
   yields no action: dispatching it shows no prompt, starts no process,
   writes no file and calls no backend (no event at all), the history stays
   as it was when the dispatch began, and control is at the main prompt. *)
C14_NoneHasNoEffect ==
    (/\ resp # None
     /\ tool_match(resp) = None
     /\ ~HasBlock(resp) \/ Strip(Body1(resp)) = <<>>) =>
       /\ pc = "prompt"
       /\ Len(log) = mark
       /\ Len(messages) = hmark
       /\ Last(messages) = Msg("assistant", resp)
       /\ cmd = None /\ art = NoArt /\ url = None /\ depth = 0

C14_Witness ==
    /\ resp # None
    /\ tool_match(resp) = None
    /\ Cardinality(Fences(resp)) = 1
    /\ OpenFence(resp) < Len(resp)
    /\ pc = "prompt"

(* C15: for a response without the tool marker and a URL whose first fenced
   block has a non-empty trimmed body: when the lower-cased tag is bash, sh
   or shell, the first event of the dispatch is the execute prompt showing
   the trimmed body, and no file is written; with any other tag, or none,
   no command is proposed, the code in hand is the trimmed body with the
   lower-cased tag as language, and a file written is written under the
   resolved filename, which is not absent. *)
C15_TagDecidesAction ==
    (/\ resp # None
     /\ tool_match(resp) = None
     /\ HasBlock(resp)
     /\ Strip(Body1(resp)) # <<>>) =>
       LET tag  == Lower(Strip(Tag1(resp)))
           body == Strip(Body1(resp))
           ev   == SubSeq(log, mark + 1, Len(log))
       IN  IF tag \in {<<"bash">>, <<"sh">>, <<"shell">>}
           THEN /\ Len(ev) >= 1 /\ ev[1] = Ev("prompt_execute", body)
                /\ cmd = body
                /\ art = NoArt
                /\ \A k \in 1..Len(ev) : ev[k].ev \notin {"write", "call"}
                /\ pc \in {"confirm", "run", "prompt"}
           ELSE /\ art.code = body
                /\ art.language = tag
                /\ cmd = None
                /\ \A k \in 1..Len(ev) : ev[k].ev \notin {"prompt_execute", "run"}
                /\ \A k \in 1..Len(ev) :
                      ev[k].ev = "write" => ev[k].arg = art.filename /\ Truthy(ev[k].arg)
                /\ pc \in {"call", "returned", "write", "prompt"}
                /\ pc = "write" => Truthy(art.filename)

C15_Witness ==
    /\ resp # None
    /\ tool_match(resp) = None
    /\ Tag1(resp) = <<"BASH", "sp">>
    /\ pc = "run"
    /\ cmd = <<"FNAME", "bar.py", "nl", "code">>

(* C16: a step from the file write either records the write and asks for
   the run command, or reports the failure and returns to the main prompt
   with the history unchanged, or is the operator's interrupt; the report of
   a failed write is the last event of its turn, so no run command is asked,
   no prompt shown and no command run after it, and the history is as the
   dispatch found it. *)
C16_WriteFailureAbortsTheAction ==
    /\ [][ (pc = "write" /\ pc' # "exited") =>
              \/ /\ log' = Append(Append(log, Ev("write", art.filename)),
                                   Ev("call", <<"runcmd">>))
                 /\ pc' = "call"
              \/ /\ log' = Append(log, Ev("say", <<"Error saving file">>))
                 /\ pc' = "prompt"
                 /\ messages' = messages
                 /\ depth' = 0 ]_vars
    /\ [](\A i \in 1..Len(log) :
            log[i] = Ev("say", <<"Error saving file">>) =>
               /\ i = Len(log)
               /\ pc \in {"prompt", "exited"}
               /\ Len(messages) = hmark
               /\ \A k \in (mark + 1)..i : log[k].ev \notin {"write", "prompt_execute", "run"})

C16_Witness ==
    /\ pc = "prompt"
    /\ Len(log) > 0 /\ Last(log) = Ev("say", <<"Error saving file">>)
    /\ Len(messages) < MaxHistory

(* C17: a file is never written under an absent or empty name.  When the
   response gave no filename, one backend query is made for it, of at most
   max_retries attempts; an absent reply or a reply with no filename token
   gives the name generated_code_<time>.<language, or txt>, any other reply
   gives the name found in it; the write comes after, and no second query
   for a name is made before it. *)
C17_FilenameResolvedBeforeWrite ==
    /\ [](pc = "write" => Truthy(art.filename))
    /\ [](\A i \in 1..Len(log) : log[i].ev = "write" => Truthy(log[i].arg))
    /\ []((site = "filename" /\ pc = "call") =>
             attempt \in 0..(max_retries - 1) /\ ~Truthy(art.filename))
    /\ [](\A i \in 1..Len(log) :
            log[i] = Ev("call", <<"filename">>) =>
               \/ i = Len(log) /\ pc \in {"call", "returned", "write", "exited"}
               \/ i < Len(log) /\ log[i+1].ev = "write"
               \/ /\ i < Len(log) /\ log[i+1] = Ev("say", <<"Fallback">>)
                  /\ i + 1 = Len(log) \/ log[i+2].ev \in {"write", "say"}
               \/ i + 1 = Len(log) /\ log[i+1] = Ev("say", <<"Error saving file">>))
    /\ [][ (pc = "returned" /\ site = "filename") =>
              /\ pc' = "write"
              /\ messages' = messages
              /\ IF ~Truthy(ret) \/ name_match(ret) = None
                 THEN /\ art'.filename = <<"generated_code_", "TIME", ".">>
                           \o (IF Truthy(art.language) THEN art.language ELSE <<"txt">>)
                      /\ log' = Append(log, Ev("say", <<"Fallback">>))
                 ELSE /\ art'.filename = name_match(ret)
                      /\ log' = log ]_vars

C17_Witness ==
    /\ pc = "write"
    /\ art.filename = <<"generated_code_", "TIME", ".", "python">>
    /\ Len(log) >= 3
    /\ Last(log) = Ev("say", <<"Fallback">>)
    /\ log[Len(log) - 1] = Ev("call", <<"filename">>)
    /\ log[Len(log) - 2] = Ev("call", <<"debug">>)

(* C18: a step from the run appends a message exactly when the exit status
   is zero: it then appends one user message that names the command and the
   captured output and returns to the main prompt; a non-zero exit and an
   unexpected error leave the history as it was.  A success summary enters
   the history only by such a step, each success is the last event of its
   turn, and the turn's success summaries are as many as its successes. *)
C18_SummaryIffExitZero ==
    /\ [][ pc = "run" =>
              IF log' # log /\ Last(log').ev = "exit0"
              THEN /\ \E o \in Stdouts :
                         messages' = Append(messages, Msg("user", success_message(cmd, o)))
                   /\ IsSuccessSummary(Last(messages'))
                   /\ pc' = "prompt"
                   /\ depth' = 0
              ELSE messages' = messages ]_vars
    /\ [][ (Len(messages') > Len(messages) /\ IsSuccessSummary(Last(messages'))) =>
              /\ pc = "run"
              /\ Len(messages') = Len(messages) + 1
              /\ log' = Append(log, Ev("exit0", cmd)) ]_vars
    /\ [](Cardinality({i \in (TurnStart + 1)..Len(messages) : IsSuccessSummary(messages[i])})
            = Cardinality({k \in 1..Len(log) : log[k].ev = "exit0"}))
    /\ [](\A i \in 1..Len(log) :
            log[i].ev = "exit0" => i = Len(log) /\ pc \in {"prompt", "exited"})

C18_Witness ==
    /\ pc = "prompt"
    /\ Len(log) > 0 /\ Last(log).ev = "exit0"
    /\ IsSuccessSummary(Last(messages))
    /\ \E i \in 1..Len(log) : log[i].ev = "prompt_debug"

(* C19: every invocation of execute_and_debug_command shows its execute
   prompt once: the active invocations are as many as the execute prompts
   of the chain; between an execute prompt and the next one (or the end of
   the turn) there is at most one run, at most one debug prompt and at most
   one repair call; and every execute prompt but the first of the turn has
   a repair call between the prompt before it and itself. *)
C19_OnePromptPerInvocation ==
    LET P == {i \in 1..Len(log) : log[i].ev = "prompt_execute"}
        nxt(i) == IF \E j \in P : j > i THEN Min({j \in P : j > i}) ELSE Len(log) + 1
        count(i, e) == Cardinality({k \in (i+1)..(nxt(i)-1) : log[k].ev = e})
        repairs(i) == Cardinality({k \in (i+1)..(nxt(i)-1) : log[k] = Ev("call", <<"debug">>)})
    IN  /\ pc \notin {"prompt", "exited"} => depth = Cardinality(P)
        /\ pc \in {"confirm", "run", "debug"} => depth >= 1
        /\ \A i \in P :
              /\ count(i, "run") <= 1
              /\ count(i, "prompt_debug") <= 1
              /\ repairs(i) <= 1
              /\ nxt(i) <= Len(log) =>
                    /\ count(i, "run") = 1
                    /\ count(i, "prompt_debug") = 1
                    /\ repairs(i) = 1

C19_Witness ==
    /\ pc = "debug"
    /\ Cardinality({i \in 1..Len(log) : log[i].ev = "prompt_execute"}) = 2
    /\ Cardinality({i \in 1..Len(log) : log[i].ev = "run"}) = 2

(* C20: while the filename query or the run-command query is in progress,
   the request is the fresh list built for it (one or two messages), none
   of its messages is a message of the history, and the history is as the
   dispatch found it; no step of such a query, the use of its reply
   included, changes the history. *)
C20_SecondaryQueriesLeaveHistory ==
    /\ []((site \in {"filename", "runcmd"} /\ pc \in {"call", "returned"}) =>
             /\ req = IF site = "filename"
                      THEN filename_messages(art.code, art.language)
                      ELSE run_messages(art.filename, art.language)
             /\ Len(req) \in {1, 2}
             /\ \A i \in 1..Len(req) : \A j \in 1..Len(messages) : req[i] # messages[j]
             /\ Len(messages) = hmark)
    /\ [][ (site \in {"filename", "runcmd"} /\ pc \in {"call", "returned"})
              => messages' = messages ]_vars

C20_Witness ==
    /\ pc = "confirm"
    /\ Len(log) >= 4
    /\ Last(log).ev = "prompt_execute"
    /\ log[Len(log) - 1] = Ev("call", <<"runcmd">>)
    /\ \E k \in 1..Len(log) : log[k] = Ev("call", <<"filename">>)
    /\ Len(messages) = hmark

====
